---- MODULE Spec2Model ----
EXTENDS Integers, Sequences, FiniteSets, TLC

(***************************************************************************)
(* Model of Estar.py: the command line entry, get_total_pages,             *)
(* download_image and the page loop of scrape_story.                       *)
(*                                                                         *)
(* Strings are sequences of one-character strings; the three-character     *)
(* label "ページ" and the literal parts of the placeholders are single      *)
(* elements.  Delays are in tenths of a second.                            *)
(***************************************************************************)

VARIABLES
    pc,             \* "main", "scrape", "loop", "finish", "returned", "exit";
                    \* "image" in the image specification
    argv,           \* the command line
    total_pages,    \* scrape_story: total_pages (-1: not assigned)
    page,           \* scrape_story: loop variable page (0: not bound yet)
    last_text,      \* scrape_story: last_text
    pages_scraped,  \* scrape_story: pages_scraped
    folders,        \* directories created by os.makedirs
    artifacts,      \* page number -> state and content of page_NNN.txt
    images,         \* file name -> state of the file in the images folder
    slept,          \* arguments of the time.sleep calls, in order
    stop_reason,    \* why the loop was left
    success,        \* return value of scrape_story
    exit_status,    \* argument of exit()
    front,          \* history: the response get_total_pages received
    seen,           \* history: what each loop iteration fetched and did
    dl_calls        \* history: calls of download_image (image specification)

vars == <<pc, argv, total_pages, page, last_text, pages_scraped, folders,
          artifacts, images, slept, stop_reason, success, exit_status, front,
          seen, dl_calls>>

-----------------------------------------------------------------------------
\* Bounds

MaxTotal == 2

MaxCalls == 2

-----------------------------------------------------------------------------
\* Program constants

\* range(1, total_pages + 3): the stop value is total_pages plus this
RangeStopOffset == 3

\* time.sleep(0.5), in tenths of a second
SleepArg == 5

\* argparse default of --delay, in tenths of a second
DelayDefault == 5

None == <<"None">>

-----------------------------------------------------------------------------
\* String helpers

IsSpace(c) == c \in {" ", "\n", "\t"}

RECURSIVE LStrip(_)
LStrip(s) ==
    IF s # <<>> /\ IsSpace(Head(s)) THEN LStrip(Tail(s)) ELSE s

RECURSIVE RStrip(_)
RStrip(s) ==
    IF s # <<>> /\ IsSpace(s[Len(s)])
    THEN RStrip(SubSeq(s, 1, Len(s) - 1))
    ELSE s

\* str.strip()
Strip(s) == RStrip(LStrip(s))

\* s.split(sep)[0]
SplitFirst(s, sep) ==
    IF \E i \in 1..Len(s) : s[i] = sep
    THEN LET i == CHOOSE k \in 1..Len(s) :
                      s[k] = sep /\ \A j \in 1..(k - 1) : s[j] # sep
         IN  SubSeq(s, 1, i - 1)
    ELSE s

\* os.path.basename
Basename(s) ==
    IF \E i \in 1..Len(s) : s[i] = "/"
    THEN LET i == CHOOSE k \in 1..Len(s) :
                      s[k] = "/" /\ \A j \in (k + 1)..Len(s) : s[j] # "/"
         IN  SubSeq(s, i + 1, Len(s))
    ELSE s

RECURSIVE Join(_, _)
Join(pieces, sep) ==
    IF pieces = <<>> THEN <<>>
    ELSE IF Len(pieces) = 1 THEN pieces[1]
    ELSE pieces[1] \o <<sep>> \o Join(Tail(pieces), sep)

Digits == <<"0", "1", "2", "3", "4", "5", "6", "7", "8", "9">>

IsDigit(c) == \E k \in 1..10 : Digits[k] = c

DigitVal(c) == (CHOOSE k \in 1..10 : Digits[k] = c) - 1

RECURSIVE ToInt(_)
ToInt(ds) ==
    IF ds = <<>> THEN 0
    ELSE 10 * ToInt(SubSeq(ds, 1, Len(ds) - 1)) + DigitVal(ds[Len(ds)])

-----------------------------------------------------------------------------
\* get_total_pages

PageLabel == "ページ"

\* the match positions of re.search(r"/(\d+)ページ", text): i is the "/",
\* j the label
PageCountMatches(text) ==
    {m \in (1..Len(text)) \X (1..Len(text)) :
        /\ text[m[1]] = "/"
        /\ m[2] > m[1] + 1
        /\ text[m[2]] = PageLabel
        /\ \A k \in (m[1] + 1)..(m[2] - 1) : IsDigit(text[k])}

NoSpan == <<"NoSpan">>

ValueError == [raised |-> TRUE, value |-> 0]

\* variant: a page count of 1 is assumed when the label is missing or odd
GetTotalPages_Fallback(resp) ==
    IF resp.kind = "neterr" THEN ValueError
    ELSE IF resp.span = NoSpan THEN [raised |-> FALSE, value |-> 1]
    ELSE LET text == Strip(resp.span)
             ms   == PageCountMatches(text)
         IN  IF ms = {} THEN [raised |-> FALSE, value |-> 1]
             ELSE LET m == CHOOSE x \in ms : \A y \in ms : x[1] <= y[1]
                  IN  [raised |-> FALSE,
                       value |-> ToInt(SubSeq(text, m[1] + 1, m[2] - 1))]

\* the outcome of get_total_pages on a response: ValueError raised, or the
\* count returned
GetTotalPages(resp) ==
    IF resp.kind = "neterr" THEN ValueError
    ELSE IF resp.span = NoSpan THEN ValueError
    ELSE LET text == Strip(resp.span)
             ms   == PageCountMatches(text)
         IN  IF ms = {} THEN ValueError
             ELSE LET m == CHOOSE x \in ms : \A y \in ms : x[1] <= y[1]
                  IN  [raised |-> FALSE,
                       value |-> ToInt(SubSeq(text, m[1] + 1, m[2] - 1))]

DigitOf(n) == Digits[n + 1]

SpanTexts ==
    {<<"1", "/", DigitOf(n), PageLabel>> : n \in 0..MaxTotal}
        \cup {<<" ", "1", "/", "0", PageLabel, " ">>,
              <<"1", "/", "2">>, <<"2", PageLabel>>, <<"1", "/", PageLabel>>,
              NoSpan}

NoResponse == [kind |-> "none", span |-> NoSpan]

FirstPageResponses ==
    {[kind |-> "neterr", span |-> NoSpan]}
        \cup {[kind |-> "ok", span |-> s] : s \in SpanTexts}

-----------------------------------------------------------------------------
\* download_image

ImageOutcomes == {"ok", "fetch_fail", "open_fail", "write_fail"}

\* "[Failed to download: <basename of the url as given>]"
FailedName(img_url) == <<"[Failed to download: ">> \o Basename(img_url) \o <<"]">>

FileName(img_url) == Basename(SplitFirst(img_url, "?"))

\* variant: the file is fetched whether it is there or not
FileExists_Never(disk, filename) == FALSE

\* os.path.exists(filepath)
FileExists(disk, filename) == disk[filename] # "absent"

\* download_image(img_url, dest_folder) on the folder content disk, the
\* request and the file write ending as out says.  ret is the return value,
\* fetched tells whether requests.get was called.
DownloadImage(img_url, disk, out) ==
    LET filename == FileName(img_url)
    IN  IF FileExists(disk, filename)
        THEN [ret |-> filename, disk |-> disk, fetched |-> FALSE]
        ELSE CASE out = "ok" ->
                    [ret |-> filename,
                     disk |-> [disk EXCEPT ![filename] = "full"],
                     fetched |-> TRUE]
               [] out = "fetch_fail" ->
                    [ret |-> FailedName(img_url), disk |-> disk,
                     fetched |-> TRUE]
               [] out = "open_fail" ->
                    [ret |-> FailedName(img_url), disk |-> disk,
                     fetched |-> TRUE]
               [] out = "write_fail" ->
                    [ret |-> FailedName(img_url),
                     disk |-> [disk EXCEPT ![filename] = "partial"],
                     fetched |-> TRUE]

UrlA == <<"d", "/", "i">>

UrlAq == <<"d", "/", "i", "?", "q">>

UrlB == <<"j", "?", "/", "k">>

UrlC == <<"j">>

Urls == {UrlA, UrlAq, UrlB, UrlC}

FileNames == {FileName(u) : u \in Urls}

EmptyFolder == [f \in FileNames |-> "absent"]

-----------------------------------------------------------------------------
\* The content container: a sequence of nodes, a text node [k |-> "text",
\* s |-> its string] or an image element [k |-> "img", s |-> its src
\* attribute, <<>> when it has none]

TextNode(s) == [k |-> "text", s |-> s]

ImgNode(src) == [k |-> "img", s |-> src]

RECURSIVE Pieces(_)
Pieces(nodes) ==
    IF nodes = <<>> THEN <<>>
    ELSE LET h == Head(nodes)
             t == IF h.k = "text" THEN Strip(h.s) ELSE <<>>
         IN  (IF t = <<>> THEN <<>> ELSE <<t>>) \o Pieces(Tail(nodes))

\* body.get_text(separator="\n", strip=True)
GetText(body) == Join(Pieces(body), "\n")

Placeholder(filename) == <<"[Image: images/">> \o filename \o <<"]">>

\* the loop over body.find_all('img'): every image with a src is downloaded
\* and replaced in the tree by its placeholder string.  outs gives the
\* outcome of the download of the node at each position.
RECURSIVE ResolveImages(_, _, _, _)
ResolveImages(body, i, disk, outs) ==
    IF i > Len(body)
    THEN [body |-> body, disk |-> disk, rets |-> <<>>]
    ELSE IF body[i].k = "img" /\ body[i].s # <<>>
    THEN LET d    == DownloadImage(body[i].s, disk, outs[i])
             rest == ResolveImages(
                         [body EXCEPT ![i] = TextNode(Placeholder(d.ret))],
                         i + 1, d.disk, outs)
         IN  [rest EXCEPT !.rets = <<d.ret>> \o @]
    ELSE ResolveImages(body, i + 1, disk, outs)

BodyWs == <<TextNode(<<" ">>)>>

BodyA == <<TextNode(<<"a">>)>>

BodyA2 == <<TextNode(<<" ">>), TextNode(<<" ", "a", " ">>)>>

BodyImg == <<TextNode(<<"a">>), ImgNode(UrlAq), TextNode(<<"b">>), ImgNode(<<>>)>>

BodyOnlyImg == <<ImgNode(UrlA)>>

Bodies == {BodyWs, BodyA, BodyA2, BodyImg, BodyOnlyImg}

\* what the request and the parse of one page give: a network failure, an
\* exception of the parser, or a document with or without the container
PageResponses ==
    {[kind |-> k, has_body |-> FALSE, body |-> <<>>] :
        k \in {"neterr", "parse_exc", "ok"}}
        \cup {[kind |-> "ok", has_body |-> TRUE, body |-> b] : b \in Bodies}

WriteOutcomes == {"ok", "open_fail", "write_fail"}

ImgPositions(body) ==
    {i \in 1..Len(body) : body[i].k = "img" /\ body[i].s # <<>>}

-----------------------------------------------------------------------------
\* Command line

\* argv: whether story_id.isdigit(), and the values given with --delay
Argvs ==
    [story_id_isdigit : BOOLEAN, delay_flag : {<<>>, <<20>>}]

\* parser.parse_args(): args.delay
ArgsDelay(av) ==
    IF av.delay_flag = <<>> THEN DelayDefault ELSE av.delay_flag[1]

-----------------------------------------------------------------------------
\* scrape_story: the page loop

\* variant: one page more
RangeStop_OneMore(total) == total + RangeStopOffset + 1

\* range(1, total_pages + 3)
RangeStop(total) == total + RangeStopOffset

LastPage(total) == RangeStop(total) - 1

MaxPage == LastPage(MaxTotal)

NoFile == [state |-> "absent", text |-> None]

\* variant: the duplicate test dropped
IsDuplicate_Never(last, full_content) == FALSE

\* if last_text is not None and full_content == last_text
IsDuplicate(last, full_content) == last # None /\ full_content = last

\* variant: the emptiness test dropped
IsEmptyPage_Never(full_content) == FALSE

\* if not full_content.strip()
IsEmptyPage(full_content) == Strip(full_content) = <<>>

\* f.write(full_content): the text written after the title lines, given the
\* text taken before the images were replaced and the container after it
WrittenContent(full_content, resolved_body) == full_content

\* variant: files numbered by the count of written pages
ArtifactIndex_ByCount(p, scraped) == scraped + 1

\* f"page_{page:03d}.txt": the number in the name of the file of page p,
\* scraped pages having been written before
ArtifactIndex(p, scraped) == p

\* the argument of time.sleep after a written page
SleepTime(av) == SleepArg

\* variant: last_text never assigned
NextLastText_Stale(last, full_content, written) == last

\* last_text = full_content, reached only after the write
NextLastText(last, full_content, written) ==
    IF written THEN full_content ELSE last

\* what one iteration of the loop does for page p: how it ends (a break
\* with its reason, "skipped" for the generic except, "written"), the text
\* it computed, the file it left, the images folder after it
PageStep(p, resp, outs, wr, last, disk) ==
    LET none == [outcome |-> "", content |-> None, file |-> NoFile,
                 disk |-> disk, rets |-> <<>>, wr |-> ""]
    IN  IF resp.kind = "neterr"
        THEN [none EXCEPT !.outcome = "network_error"]
        ELSE IF resp.kind = "parse_exc"
        THEN [none EXCEPT !.outcome = "skipped"]
        ELSE IF ~resp.has_body
        THEN [none EXCEPT !.outcome = "no_body"]
        ELSE LET full_content == GetText(resp.body)
                 got == [none EXCEPT !.content = full_content]
             IN  IF IsDuplicate(last, full_content)
                 THEN [got EXCEPT !.outcome = "duplicate_content"]
                 ELSE IF IsEmptyPage(full_content)
                 THEN [got EXCEPT !.outcome = "empty_page"]
                 ELSE LET r == ResolveImages(resp.body, 1, disk, outs)
                          img == [got EXCEPT !.disk = r.disk, !.rets = r.rets,
                                             !.wr = wr]
                      IN  CASE wr = "open_fail" ->
                                 [img EXCEPT !.outcome = "skipped"]
                            [] wr = "write_fail" ->
                                 [img EXCEPT !.outcome = "skipped",
                                             !.file = [state |-> "partial",
                                                       text |-> None]]
                            [] wr = "ok" ->
                                 [img EXCEPT !.outcome = "written",
                                             !.file = [state |-> "full",
                                                       text |-> WrittenContent(
                                                           full_content, r.body)]]

\* variant: the exit status does not depend on the result
ExitStatus_Zero(ok) == 0

\* exit(0 if success else 1)
ExitStatus(ok) == IF ok = "True" THEN 0 ELSE 1

\* variant: the generic except clause leaves the loop
IsBreak_OnSkip(outcome) ==
    outcome \in {"network_error", "no_body", "duplicate_content", "empty_page",
                 "skipped"}

IsBreak(outcome) ==
    outcome \in {"network_error", "no_body", "duplicate_content", "empty_page"}

-----------------------------------------------------------------------------
\* Actions

Init ==
    /\ pc = "main"
    /\ argv \in Argvs
    /\ total_pages = -1
    /\ page = 0
    /\ last_text = None
    /\ pages_scraped = 0
    /\ folders = {}
    /\ artifacts = [n \in 1..MaxPage |-> NoFile]
    /\ images = EmptyFolder
    /\ slept = <<>>
    /\ stop_reason = "none"
    /\ success = "none"
    /\ exit_status = -1
    /\ front = NoResponse
    /\ seen = <<>>
    /\ dl_calls = <<>>

\* __main__: the story id check
Main ==
    /\ pc = "main"
    /\ IF argv.story_id_isdigit
       THEN pc' = "scrape" /\ UNCHANGED exit_status
       ELSE pc' = "exit" /\ exit_status' = 1
    /\ UNCHANGED <<argv, total_pages, page, last_text, pages_scraped, folders,
                   artifacts, images, slept, stop_reason, success, front,
                   seen, dl_calls>>

TitleResponses == {"neterr", "no_title", "ok"}

MakedirsOutcomes == {"ok", "fail_story", "fail_images"}

\* scrape_story up to the loop: the page count, the title, the folders
ScrapeStart ==
    /\ pc = "scrape"
    /\ \E r1 \in FirstPageResponses, r2 \in TitleResponses,
          mk \in MakedirsOutcomes :
          LET tp == GetTotalPages(r1)
          IN  /\ front' = r1
              /\ IF tp.raised
                 THEN /\ pc' = "returned"
                      /\ success' = "False"
                      /\ UNCHANGED <<total_pages, folders>>
                 ELSE /\ total_pages' = tp.value
                      /\ IF r2 # "ok"
                         THEN /\ pc' = "returned"
                              /\ success' = "False"
                              /\ UNCHANGED folders
                         ELSE /\ folders' =
                                     CASE mk = "fail_story" -> {}
                                       [] mk = "fail_images" -> {"story"}
                                       [] mk = "ok" -> {"story", "images"}
                              /\ IF mk = "ok"
                                 THEN pc' = "loop" /\ UNCHANGED success
                                 ELSE pc' = "returned" /\ success' = "False"
    /\ UNCHANGED <<argv, page, last_text, pages_scraped, artifacts, images,
                   slept, stop_reason, exit_status, seen, dl_calls>>

\* one iteration of for page in range(1, total_pages + 3)
ScrapePage ==
    /\ pc = "loop"
    /\ page + 1 < RangeStop(total_pages)
    /\ \E resp \in PageResponses, wr \in WriteOutcomes :
        \E outs \in [ImgPositions(resp.body) -> ImageOutcomes] :
          LET p == page + 1
              r == PageStep(p, resp, outs, wr, last_text, images)
              written == r.outcome = "written"
          IN  /\ page' = p
              /\ last_text' = NextLastText(last_text, r.content, written)
              /\ pages_scraped' = IF written THEN pages_scraped + 1
                                             ELSE pages_scraped
              /\ slept' = IF written THEN Append(slept, SleepTime(argv))
                                     ELSE slept
              /\ artifacts' = IF r.file = NoFile THEN artifacts
                              ELSE [artifacts EXCEPT
                                       ![ArtifactIndex(p, pages_scraped)] = r.file]
              /\ images' = r.disk
              /\ seen' = Append(seen, [page |-> p, content |-> r.content,
                                       outcome |-> r.outcome, rets |-> r.rets,
                                       wr |-> r.wr])
              /\ IF IsBreak(r.outcome)
                 THEN pc' = "finish" /\ stop_reason' = r.outcome
                 ELSE IF p + 1 < RangeStop(total_pages)
                 THEN UNCHANGED <<pc, stop_reason>>
                 ELSE pc' = "finish" /\ stop_reason' = "exhausted"
    /\ UNCHANGED <<argv, total_pages, folders, success, exit_status, front,
                   dl_calls>>

\* scrape_story after the loop: the report and return True
Finish ==
    /\ pc = "finish"
    /\ pc' = "returned"
    /\ success' = "True"
    /\ UNCHANGED <<argv, total_pages, page, last_text, pages_scraped, folders,
                   artifacts, images, slept, stop_reason, exit_status, front,
                   seen, dl_calls>>

\* exit(0 if success else 1)
Exit ==
    /\ pc = "returned"
    /\ pc' = "exit"
    /\ exit_status' = ExitStatus(success)
    /\ UNCHANGED <<argv, total_pages, page, last_text, pages_scraped, folders,
                   artifacts, images, slept, stop_reason, success, front,
                   seen, dl_calls>>

Next == Main \/ ScrapeStart \/ ScrapePage \/ Finish \/ Exit

Spec == Init /\ [][Next]_vars

\* every step of the program returns: the requests have a timeout and the
\* loop is a for loop
FairSpec == Spec /\ WF_vars(Next)

-----------------------------------------------------------------------------
\* download_image called repeatedly on one images folder

InitImg ==
    /\ pc = "image"
    /\ argv \in {a \in Argvs : a.story_id_isdigit /\ a.delay_flag = <<>>}
    /\ total_pages = -1
    /\ page = 0
    /\ last_text = None
    /\ pages_scraped = 0
    /\ folders = {"story", "images"}
    /\ artifacts = [n \in 1..MaxPage |-> NoFile]
    /\ images \in [FileNames -> {"absent", "partial", "full"}]
    /\ slept = <<>>
    /\ stop_reason = "none"
    /\ success = "none"
    /\ exit_status = -1
    /\ front = NoResponse
    /\ seen = <<>>
    /\ dl_calls = <<>>

DownloadImageCall ==
    /\ pc = "image"
    /\ Len(dl_calls) < MaxCalls
    /\ \E u \in Urls, out \in ImageOutcomes :
          LET d == DownloadImage(u, images, out)
          IN  /\ images' = d.disk
              /\ dl_calls' = Append(dl_calls, [url |-> u, ret |-> d.ret,
                                               fetched |-> d.fetched,
                                               existed |-> FileExists(
                                                   images, FileName(u))])
    /\ UNCHANGED <<pc, argv, total_pages, page, last_text, pages_scraped,
                   folders, artifacts, slept, stop_reason, success,
                   exit_status, front, seen>>

NextImg == DownloadImageCall

SpecImg == InitImg /\ [][NextImg]_vars

-----------------------------------------------------------------------------
\* Properties

Iterations == 1..Len(seen)

FullPages == {n \in 1..MaxPage : artifacts[n].state = "full"}

FilePages == {n \in 1..MaxPage : artifacts[n].state # "absent"}

\* sub occurs in s as a contiguous run
Contains(s, sub) ==
    \E off \in 0..(Len(s) - Len(sub)) :
        \A k \in 1..Len(sub) : s[off + k] = sub[k]

\* C1 as stated: whenever page p+1 has the same normalized content as page
\* p, whatever happened to page p, the run stops at p+1 with
\* duplicate_content and page p+1 has no file.
C1_DuplicateStopsAlways ==
    \A i \in Iterations :
        (/\ i + 1 \in Iterations
         /\ seen[i].content # None
         /\ seen[i + 1].content = seen[i].content)
            => /\ seen[i + 1].outcome = "duplicate_content"
               /\ artifacts[i + 1].state = "absent"

\* C1 amended: when page p was written and page p+1 has the same normalized
\* content, the run stops at p+1 with duplicate_content, page p+1 has no file
\* and nothing after p+1 is fetched.
C1_DuplicateStopsAfterWritten ==
    \A i \in Iterations :
        (/\ i + 1 \in Iterations
         /\ seen[i].outcome = "written"
         /\ seen[i + 1].content = seen[i].content)
            => /\ seen[i + 1].outcome = "duplicate_content"
               /\ artifacts[i + 1].state = "absent"
               /\ Len(seen) = i + 1
               /\ pc # "loop"
               /\ stop_reason = "duplicate_content"

C1_Witness ==
    \E i \in Iterations :
        /\ i + 1 \in Iterations
        /\ seen[i].outcome = "written"
        /\ seen[i + 1].content = seen[i].content
        /\ seen[i + 1].outcome = "duplicate_content"

\* C2 as stated: the file of every written page whose container has images
\* with a src holds the placeholder of each of them.
C2_PlaceholderWritten ==
    \A i \in Iterations :
        (seen[i].outcome = "written" /\ artifacts[i].state = "full")
            => \A k \in 1..Len(seen[i].rets) :
                   Contains(artifacts[i].text, Placeholder(seen[i].rets[k]))

\* C3 as stated: the pages that have a file are 1..k for some k, and the
\* page that stopped the run has none.
C3_Contiguous ==
    /\ \E k \in 0..MaxPage : FilePages = 1..k
    /\ \A i \in Iterations :
           IsBreak(seen[i].outcome) => artifacts[i].state = "absent"

\* C3 amended: the pages with a complete file are exactly the pages the loop
\* went through without a stop condition and without an exception; they are
\* 1..k when no page was skipped by the generic except clause; a skipped
\* page has no complete file; the page that stopped the run has no file.
C3_ArtifactsOfWrittenPages ==
    /\ FullPages = {i \in Iterations : seen[i].outcome = "written"}
    /\ FilePages \subseteq Iterations
    /\ (\A i \in Iterations : seen[i].outcome # "skipped")
           => FilePages = 1..pages_scraped
    /\ \A i \in Iterations :
           IsBreak(seen[i].outcome) => artifacts[i].state = "absent"

C3_Witness ==
    /\ pc = "exit"
    /\ \E i \in Iterations : seen[i].outcome = "skipped"
    /\ \E i \in Iterations : IsBreak(seen[i].outcome)
    /\ \E i \in FullPages : i > 1 /\ (i - 1) \notin FullPages

IsFailedName(ret) == ret # <<>> /\ ret[1] = "[Failed to download: "

ImageFailed(i) == \E k \in 1..Len(seen[i].rets) : IsFailedName(seen[i].rets[k])

\* C4: a network failure on page p is the last iteration of the run; a page
\* skipped by the generic except clause leaves no complete file, is not
\* counted in pages_scraped, and the loop goes on with page p+1 unless p was the last page of
\* the range; a failed image download neither stops nor skips: the page is
\* written when its own write succeeds, and the loop goes on.
C4_StopVersusSkip ==
    /\ pages_scraped
          = Cardinality({j \in Iterations : seen[j].outcome = "written"})
    /\ Len(slept) = pages_scraped
    /\ \A i \in Iterations :
        /\ seen[i].outcome = "network_error"
              => /\ i = Len(seen)
                 /\ pc # "loop"
                 /\ stop_reason = "network_error"
                 /\ artifacts[i].state = "absent"
        /\ (seen[i].outcome = "skipped" /\ i < total_pages + 2)
              => /\ artifacts[i].state # "full"
                 /\ \/ i + 1 \in Iterations
                    \/ /\ i = Len(seen)
                       /\ pc = "loop"
                       /\ page = i
                       /\ stop_reason = "none"
                       /\ ENABLED ScrapePage
        /\ (ImageFailed(i) /\ seen[i].wr = "ok")
              => /\ seen[i].outcome = "written"
                 /\ artifacts[i].state = "full"
                 /\ \/ i + 1 \in Iterations
                    \/ i = total_pages + 2
                    \/ pc = "loop" /\ stop_reason = "none"

C4_Witness ==
    /\ \E i \in Iterations :
           seen[i].outcome = "skipped" /\ i + 1 \in Iterations
    /\ \E i \in Iterations :
           ImageFailed(i) /\ seen[i].outcome = "written" /\ i + 1 \in Iterations
    /\ seen[Len(seen)].outcome = "network_error"
    /\ pc = "exit"

\* the first k pages were all fetched and parsed, had non-empty content
\* different from that of every earlier page, and their writes succeeded
CleanPrefix(k) ==
    /\ k <= Len(seen)
    /\ \A i \in 1..k :
           /\ seen[i].content # None
           /\ seen[i].content # <<>>
           /\ seen[i].wr # "open_fail"
           /\ seen[i].wr # "write_fail"
           /\ \A j \in 1..(i - 1) : seen[j].content # seen[i].content

EchoAfter(n) ==
    /\ CleanPrefix(n)
    /\ n + 1 <= Len(seen)
    /\ seen[n + 1].content = seen[n].content

\* C5: with a declared count N >= 1, pages 1..N of pairwise distinct
\* non-empty content and no failure, every one of them is written; when page
\* N+1 then echoes page N, the files are exactly those of 1..N,
\* pages_scraped is N, page N+2 is not fetched, scrape_story returns True
\* and the exit status is 0.
C5_EndToEnd ==
    total_pages >= 1 =>
        /\ \A k \in 1..total_pages :
               CleanPrefix(k) => /\ seen[k].outcome = "written"
                                 /\ artifacts[k].state = "full"
                                 /\ artifacts[k].text = seen[k].content
        /\ EchoAfter(total_pages)
              => /\ FilePages = 1..total_pages
                 /\ pages_scraped = total_pages
                 /\ Len(seen) = total_pages + 1
                 /\ pc # "loop"
                 /\ pc \in {"returned", "exit"} => success = "True"
                 /\ pc = "exit" => exit_status = 0

C5_Witness ==
    /\ total_pages >= 2
    /\ EchoAfter(total_pages)
    /\ pc = "exit"
    /\ exit_status = 0

-----------------------------------------------------------------------------

SameUrlPairs ==
    {c \in (1..Len(dl_calls)) \X (1..Len(dl_calls)) :
        c[1] < c[2] /\ dl_calls[c[1]].url = dl_calls[c[2]].url}

Fetches(c) ==
    (IF dl_calls[c[1]].fetched THEN 1 ELSE 0)
        + (IF dl_calls[c[2]].fetched THEN 1 ELSE 0)

\* C6 as stated: two calls in a row with the same url make exactly one
\* request between them and return the same name, whatever the first did.
C6_Idempotent ==
    \A c \in SameUrlPairs :
        c[2] = c[1] + 1
            => /\ Fetches(c) = 1
               /\ dl_calls[c[1]].ret = dl_calls[c[2]].ret

\* C6 amended: when a call returns the file name (the file was there, or was
\* fetched and written), every later call with the same url makes no request
\* and returns the same name; the two calls make one request between them
\* when the file was not there before the first, none when it was.
C6_IdempotentAfterSuccess ==
    \A c \in SameUrlPairs :
        dl_calls[c[1]].ret = FileName(dl_calls[c[1]].url)
            => /\ ~dl_calls[c[2]].fetched
               /\ dl_calls[c[2]].ret = dl_calls[c[1]].ret
               /\ Fetches(c) = IF dl_calls[c[1]].existed THEN 0 ELSE 1

C6_Witness ==
    \E c \in SameUrlPairs :
        /\ c[2] = c[1] + 1
        /\ dl_calls[c[1]].fetched
        /\ dl_calls[c[1]].ret = FileName(dl_calls[c[1]].url)
        /\ dl_calls[c[2]].ret = dl_calls[c[1]].ret

-----------------------------------------------------------------------------

CursorInRange ==
    /\ page \in 0..(total_pages + 2)
    /\ pc = "loop" => page < total_pages + 2
    /\ Len(seen) = page
    /\ \A i \in Iterations : seen[i].page = i

LoopLeftWhenDue ==
    /\ pc = "loop" => \A i \in Iterations : ~IsBreak(seen[i].outcome)
    /\ (pc \in {"finish", "returned", "exit"} /\ seen # <<>>)
           => /\ \A i \in 1..(Len(seen) - 1) : ~IsBreak(seen[i].outcome)
              /\ \/ IsBreak(seen[Len(seen)].outcome)
                 \/ page = total_pages + 2

\* C7: the cursor stays in 1..total_pages+2 once bound and moves only by +1,
\* so no page is fetched twice by the loop; the loop is left at the first
\* stop condition or after page total_pages+2; every run ends.
C7_CursorAndTermination ==
    /\ [](CursorInRange /\ LoopLeftWhenDue)
    /\ [][page' # page => (pc = "loop" /\ page' = page + 1)]_vars
    /\ <>(pc = "exit")

C7_Witness ==
    /\ pc = "exit"
    /\ total_pages = MaxTotal
    /\ page = total_pages + 2
    /\ stop_reason = "exhausted"

\* the request of get_total_pages failed, or the page has no page-count
\* element, or its text has no "/<digits>ページ"
CountUnavailable(resp) ==
    \/ resp.kind = "neterr"
    \/ /\ resp.kind = "ok"
       /\ \/ resp.span = NoSpan
          \/ PageCountMatches(Strip(resp.span)) = {}

\* C8: when get_total_pages could not obtain the count, no folder was made, the loop fetched
\* nothing, no file was written, scrape_story returned False and the exit
\* status is 1.
C8_NoPageCountIsFatal ==
    (pc \in {"returned", "exit"} /\ CountUnavailable(front))
        => /\ folders = {}
           /\ total_pages = -1
           /\ seen = <<>>
           /\ page = 0
           /\ FilePages = {}
           /\ images = EmptyFolder
           /\ success = "False"
           /\ pc = "exit" => exit_status = 1

C8_Witness ==
    /\ pc = "exit"
    /\ front.kind = "ok"
    /\ front.span # NoSpan
    /\ CountUnavailable(front)
    /\ exit_status = 1

\* C9 as stated: every sleep after a written page lasts the --delay given,
\* the default when none is given.
C9_DelayConfigurable ==
    \A k \in 1..Len(slept) : slept[k] = ArgsDelay(argv)

\* C10: last_text is None while nothing is written and else the non-empty
\* text of the last complete file; pages_scraped counts the complete files;
\* a page of empty content stops with empty_page, and a page that stops as
\* a duplicate has non-empty content.
C10_LastTextInvariant ==
    /\ IF FullPages = {}
       THEN last_text = None
       ELSE LET m == CHOOSE n \in FullPages : \A k \in FullPages : k <= n
            IN  /\ last_text = artifacts[m].text
                /\ last_text # <<>>
                /\ Strip(last_text) # <<>>
    /\ pages_scraped = Cardinality(FullPages)
    /\ \A i \in Iterations :
           /\ (seen[i].content # None /\ IsEmptyPage(seen[i].content))
                 => seen[i].outcome = "empty_page"
           /\ seen[i].outcome = "duplicate_content"
                 => ~IsEmptyPage(seen[i].content)

C10_Witness ==
    /\ pages_scraped >= 1
    /\ last_text # None
    /\ seen[Len(seen)].outcome = "empty_page"

=============================================================================
